---- MODULE Spec2Model ----
(***************************************************************************)
(* Model of the two Online.net integrations:                               *)
(*   - modules/online_net/online_net.py     (server management plugin)     *)
(*   - inventories/online_net/online_net.py (dynamic inventory script)     *)
(* Remote API calls are modelled by their outcome: a call either succeeds  *)
(* (2xx, truthy JSON) or fails (api() returns None / {}); a failed call    *)
(* leaves the remote side untouched.                                       *)
(***************************************************************************)
EXTENDS Integers, Sequences, FiniteSets, TLC

VARIABLES
    pc,        \* position of core() in the management plugin
    params,    \* module.params
    server,    \* the Server object (None before Server.find succeeds)
    rpn,       \* remote RPN groups: sequence of [id, name, members]
    calls,     \* remote calls issued so far, in order, with their outcome
    output,    \* core(): the per-operation result list
    mutated,   \* whether some remote call has changed remote state
    rpn_run,   \* the last rpn_groups() run: how it ended, what it fetched and called,
               \* and the remote groups between its remove loop and its add loop
    polls,     \* number of BMC status requests that were not authenticated
    result,    \* what core() handed to exit_json / fail_json
    ipc,       \* position of OnlineNetInventory.__init__ in the inventory script
    conf,      \* inventory inputs: ini file, environment, command line
    inv,       \* the OnlineNetInventory object
    cache,     \* the cache file: exists, mtime, content
    now,       \* time()
    api_servers, \* the server records the API serves
    api_log,   \* API requests of the inventory script, in order
    writes,    \* number of times the cache file was written
    cache_valid, \* how the last is_cache_valid() call ended
    printed,   \* what the inventory script printed
    cache_before, \* the cache file as the run found it
    bpc,       \* position of a direct call of build_index / build_inventory
    records,   \* the server records (self.data) the builder is called on
    built      \* what the builder call gave: the operation, its key, how it ended

mvars == <<pc, params, server, rpn, calls, output, mutated, rpn_run, polls, result>>
ivars ==
    <<ipc, conf, inv, cache, now, api_servers, api_log, writes, cache_valid, printed,
      cache_before>>
bvars == <<bpc, records, built>>
vars == <<mvars, ivars, bvars>>

----------------------------------------------------------------------------
(* Bounds *)

MaxJoin == 2      \* longest list of desired group names
MaxGroups == 2    \* most remote groups present before the run
MaxPolls == 2     \* most unauthenticated BMC status replies
MaxTime == 3      \* latest clock value; cache files are at most this old
MaxRecords == 3   \* longest record list handed to a builder directly

GroupNames == {"A", "B", "C"}
SelfId == 1
OtherId == 2

----------------------------------------------------------------------------
(* Strings that the code inspects character by character *)

Normal == <<"n","o","r","m","a","l">>
RescuePrefix == <<"r","e","s","c","u","e","-">>
RescueWord == <<"r","e","s","c","u","e">>

BootModes ==
    { Normal,
      <<"r","e","s","c","u","e","-","u","b">>,
      <<"r","e","s","c","u","e">>,
      <<"x","r","e","s","c","u","e","-","u">>,
      <<"r","e","s","c","u","e","-","r","e","s","c","u","e","-">>,
      <<"n","o","-","r","e","s","c","u","e">> }

\* sub occurs in s at position i (1-based)
OccursAt(s, sub, i) ==
    /\ i >= 1
    /\ i + Len(sub) - 1 <= Len(s)
    /\ SubSeq(s, i, i + Len(sub) - 1) = sub

\* Python: sub in s
Contains(s, sub) == \E i \in 1..(Len(s) + 1) : OccursAt(s, sub, i)

\* Python: s.startswith(sub)
StartsWith(s, sub) == OccursAt(s, sub, 1)

\* Python: s.replace(sub, '', 1)
ReplaceFirst(s, sub) ==
    IF Contains(s, sub)
    THEN LET i == CHOOSE k \in 1..(Len(s) + 1) :
                     /\ OccursAt(s, sub, k)
                     /\ \A m \in 1..(k - 1) : ~OccursAt(s, sub, m)
         IN SubSeq(s, 1, i - 1) \o SubSeq(s, i + Len(sub), Len(s))
    ELSE s

----------------------------------------------------------------------------
(* Remote calls *)

NoImage == <<>>

Call(cmd, gid, name, image, ok) ==
    [cmd |-> cmd, gid |-> gid, name |-> name, image |-> image, ok |-> ok]

\* commands of Server.name and Server.state whose success changes remote state
MutatingCmds ==
    { "PUT server", "server/boot/normal", "server/shutdown",
      "server/boot/rescue", "server/reboot" }

Mutates(log) == \E i \in DOMAIN log : log[i].cmd \in MutatingCmds /\ log[i].ok

----------------------------------------------------------------------------
(* Server.state *)

StateResult(srv, ret, log) == [srv |-> srv, ret |-> ret, calls |-> log]

\* mutation: boots without looking at the recorded power
PowerOnUnguarded(srv, ok) ==
    IF ok
    THEN StateResult([srv EXCEPT !.power = "ON", !.changed = TRUE], TRUE,
                     <<Call("server/boot/normal", 0, "", NoImage, ok)>>)
    ELSE StateResult(srv, FALSE, <<Call("server/boot/normal", 0, "", NoImage, ok)>>)

\* state == 'on'
PowerOn(srv, ok) ==
    IF srv.power = "OFF" THEN
        IF ok
        THEN StateResult([srv EXCEPT !.power = "ON", !.changed = TRUE], TRUE,
                         <<Call("server/boot/normal", 0, "", NoImage, ok)>>)
        ELSE StateResult(srv, FALSE,
                         <<Call("server/boot/normal", 0, "", NoImage, ok)>>)
    ELSE StateResult(srv, FALSE, <<>>)

\* a shutdown that records OFF whatever the call answered
PowerOffOptimistic(srv, ok) ==
    IF srv.power = "ON"
    THEN StateResult([srv EXCEPT !.power = "OFF", !.changed = TRUE], ok,
                     <<Call("server/shutdown", 0, "", NoImage, ok)>>)
    ELSE StateResult(srv, FALSE, <<>>)

\* state == 'off'
PowerOff(srv, ok) ==
    IF srv.power = "ON" THEN
        IF ok
        THEN StateResult([srv EXCEPT !.power = "OFF", !.changed = TRUE], TRUE,
                         <<Call("server/shutdown", 0, "", NoImage, ok)>>)
        ELSE StateResult(srv, FALSE,
                         <<Call("server/shutdown", 0, "", NoImage, ok)>>)
    ELSE StateResult(srv, FALSE, <<>>)

\* state == 'reboot': self.changed is assigned the result of the call
Reboot(srv, ok) ==
    IF Contains(srv.boot_mode, RescueWord)
    THEN StateResult([srv EXCEPT !.changed = ok], ok,
                     <<Call("server/boot/rescue", 0, "",
                            ReplaceFirst(srv.boot_mode, RescuePrefix), ok)>>)
    ELSE StateResult([srv EXCEPT !.changed = ok], ok,
                     <<Call("server/reboot", 0, "", NoImage, ok)>>)

\* Server.state(state); ok is the outcome of the one remote call it may issue
State(srv, st, ok) ==
    IF st = "on" THEN PowerOn(srv, ok)
    ELSE IF st = "off" THEN PowerOff(srv, ok)
    ELSE IF st = "reboot" THEN Reboot(srv, ok)
    ELSE StateResult(srv, FALSE, <<>>)

----------------------------------------------------------------------------
(* Server.name *)

Name(srv, name, ok) ==
    IF ok
    THEN [srv |-> [srv EXCEPT !.hostname = name, !.changed = TRUE], ret |-> TRUE,
          calls |-> <<Call("PUT server", 0, name, NoImage, ok)>>]
    ELSE [srv |-> srv, ret |-> FALSE,
          calls |-> <<Call("PUT server", 0, name, NoImage, ok)>>]

----------------------------------------------------------------------------
(* Server.rpn_groups *)

\* the remote side of rpn/group (create), removeServers and addServers
FreshId(remote) == 10 * (Len(remote) + 1)

CreateGroup(remote, name, sid) ==
    Append(remote, [id |-> FreshId(remote), name |-> name, members |-> {sid}])

RemoveServers(remote, gid, sid) ==
    [i \in DOMAIN remote |->
        IF remote[i].id = gid
        THEN [remote[i] EXCEPT !.members = @ \ {sid}]
        ELSE remote[i]]

AddServers(remote, gid, sid) ==
    [i \in DOMAIN remote |->
        IF remote[i].id = gid
        THEN [remote[i] EXCEPT !.members = @ \cup {sid}]
        ELSE remote[i]]

\* groups_names_to_ids: a later group of the same name overrides an earlier one
NamesToIds(groups) ==
    [n \in {groups[i].name : i \in DOMAIN groups} |->
        groups[CHOOSE i \in DOMAIN groups :
                  /\ groups[i].name = n
                  /\ \A j \in DOMAIN groups : groups[j].name = n => j <= i].id]

\* server_groups: ids of the fetched groups that have the server as a member
ServerGroups(groups, sid) ==
    LET sel == SelectSeq(groups, LAMBDA g : sid \in g.members)
    IN [i \in DOMAIN sel |-> sel[i].id]

\* (lines 168-170) create every desired group whose name is not in the map
RECURSIVE CreateMissing(_, _, _, _, _, _)
CreateMissing(acc, join, map, sid, ok, i) ==
    IF i > Len(join) THEN acc
    ELSE IF join[i] \in DOMAIN map THEN CreateMissing(acc, join, map, sid, ok, i + 1)
    ELSE CreateMissing(
            [acc EXCEPT
                !.calls = Append(@, Call("POST rpn/group", 0, join[i], NoImage, ok.create[i])),
                !.remote = IF ok.create[i] THEN CreateGroup(@, join[i], sid) ELSE @,
                !.changes = @ \/ ok.create[i]],
            join, map, sid, ok, i + 1)

\* mutation: a failed removal is not remembered
LeaveOneForgetful(acc, gid, sid, ok) ==
    [acc EXCEPT
        !.calls = Append(@, Call("rpn/group/removeServers", gid, "", NoImage, ok)),
        !.remote = IF ok THEN RemoveServers(@, gid, sid) ELSE @,
        !.changes = @ \/ (ok /\ RemoveServers(acc.remote, gid, sid) # acc.remote)]

\* (lines 175-176) one removeServers call
LeaveOne(acc, gid, sid, ok) ==
    [acc EXCEPT
        !.calls = Append(@, Call("rpn/group/removeServers", gid, "", NoImage, ok)),
        !.remote = IF ok THEN RemoveServers(@, gid, sid) ELSE @,
        !.changes = @ \/ (ok /\ RemoveServers(acc.remote, gid, sid) # acc.remote),
        !.sync = IF ok THEN @ ELSE FALSE]

\* a remove loop that stops before the last group the server was in
RECURSIVE LeaveAllButLast(_, _, _, _, _)
LeaveAllButLast(acc, server_groups, sid, ok, j) ==
    IF j >= Len(server_groups) THEN acc
    ELSE LeaveAllButLast(LeaveOne(acc, server_groups[j], sid, ok.remove[j]),
                         server_groups, sid, ok, j + 1)

\* (lines 174-176) leave every group the server was in
RECURSIVE LeaveAll(_, _, _, _, _)
LeaveAll(acc, server_groups, sid, ok, j) ==
    IF j > Len(server_groups) THEN acc
    ELSE LeaveAll(LeaveOne(acc, server_groups[j], sid, ok.remove[j]),
                  server_groups, sid, ok, j + 1)

\* mutation: the group is recorded whether or not the add call succeeded
JoinOneRecordsAll(acc, gid, name, sid, ok) ==
    [acc EXCEPT
        !.calls = Append(@, Call("rpn/group/addServers", gid, name, NoImage, ok)),
        !.remote = IF ok THEN AddServers(@, gid, sid) ELSE @,
        !.changes = @ \/ (ok /\ AddServers(acc.remote, gid, sid) # acc.remote),
        !.sync = IF ok THEN @ ELSE FALSE,
        !.recorded = Append(@, [id |-> gid, name |-> name])]

\* (lines 179-182) one addServers call
JoinOne(acc, gid, name, sid, ok) ==
    [acc EXCEPT
        !.calls = Append(@, Call("rpn/group/addServers", gid, name, NoImage, ok)),
        !.remote = IF ok THEN AddServers(@, gid, sid) ELSE @,
        !.changes = @ \/ (ok /\ AddServers(acc.remote, gid, sid) # acc.remote),
        !.sync = IF ok THEN @ ELSE FALSE,
        !.recorded = IF ok THEN Append(@, [id |-> gid, name |-> name]) ELSE @]

\* (lines 177-182) join every desired group; an unknown name raises KeyError
RECURSIVE JoinAll(_, _, _, _, _, _)
JoinAll(acc, join, map, sid, ok, i) ==
    IF i > Len(join) THEN acc
    ELSE IF join[i] \notin DOMAIN map THEN [acc EXCEPT !.status = "KeyError"]
    ELSE JoinAll(JoinOne(acc, map[join[i]], join[i], sid, ok.add[i]),
                 join, map, sid, ok, i + 1)

\* an rpn_groups that joins the desired groups before it leaves the old ones
RpnGroupsJoinFirst(remote, sid, join, ok) ==
    LET fetch == Call("GET rpn/group", 0, "", NoImage, ok.list)
        start == [remote |-> remote, calls |-> <<fetch>>, sync |-> TRUE,
                  recorded |-> <<>>, status |-> "returned", changes |-> FALSE,
                  between |-> remote]
    IN IF ~ok.list
       THEN [start EXCEPT !.status = "TypeError"]
       ELSE LET map == NamesToIds(remote)
                server_groups == ServerGroups(remote, sid)
                created == CreateMissing(start, join, map, sid, ok, 1)
                joined == JoinAll(created, join, map, sid, ok, 1)
            IN IF joined.status # "returned" THEN joined
               ELSE LeaveAll([joined EXCEPT !.between = joined.remote],
                             server_groups, sid, ok, 1)

\* Server.rpn_groups(join_groups) against the remote groups `remote`.
\* status: "returned", or the exception that ended the call.
\* between: the remote groups after the remove loop, before the add loop.
RpnGroups(remote, sid, join, ok) ==
    LET fetch == Call("GET rpn/group", 0, "", NoImage, ok.list)
        start == [remote |-> remote, calls |-> <<fetch>>, sync |-> TRUE,
                  recorded |-> <<>>, status |-> "returned", changes |-> FALSE,
                  between |-> remote]
    IN IF ~ok.list
       THEN [start EXCEPT !.status = "TypeError"]
       ELSE LET map == NamesToIds(remote)
                server_groups == ServerGroups(remote, sid)
                created == CreateMissing(start, join, map, sid, ok, 1)
                left == LeaveAll(created, server_groups, sid, ok, 1)
            IN JoinAll([left EXCEPT !.between = left.remote], join, map, sid, ok, 1)

\* every outcome pattern of the remote calls of one rpn_groups() run
RpnOutcomes(groups, sid, join) ==
    [list : BOOLEAN, create : [1..Len(join) -> BOOLEAN],
     remove : [1..Len(ServerGroups(groups, sid)) -> BOOLEAN],
     add : [1..Len(join) -> BOOLEAN]]

----------------------------------------------------------------------------
(* Inputs of the management plugin *)

NameOrder == <<"A", "B", "C">>

\* remote groups named E (in NameOrder) with members m[name]
GroupsOf(E, m) ==
    LET names == SelectSeq(NameOrder, LAMBDA n : n \in E)
    IN [i \in DOMAIN names |->
           [id |-> 10 * i, name |-> names[i], members |-> m[names[i]]]]

\* every group has another server in it; the server itself is in some of them
MemberSets == {{OtherId}, {SelfId, OtherId}}

RemoteGroupsInit ==
    UNION { { GroupsOf(E, m) : m \in [E -> MemberSets] } :
            E \in { X \in SUBSET GroupNames : Cardinality(X) <= MaxGroups } }

JoinLists == UNION { [1..n -> GroupNames] : n \in 0..MaxJoin }

NoParams ==
    [id |-> SelfId, hostname |-> "", rpn_groups |-> <<>>, rescue_images |-> FALSE,
     bmc |-> FALSE, bmc_close |-> FALSE, boot_mode |-> Normal, state |-> "none"]

\* the server JSON that Server.find loads
ServerJson(power) ==
    [id |-> SelfId, hostname |-> "web1", power |-> power, boot_mode |-> Normal,
     changed |-> FALSE, groups |-> <<>>, bmc_key |-> "k0"]

NoRun ==
    [status |-> "none", ret |-> FALSE, fetch |-> <<>>, calls |-> <<>>, join |-> <<>>,
     between |-> <<>>]

SmallGroups ==
    <<[id |-> 10, name |-> "A", members |-> {SelfId}],
      [id |-> 20, name |-> "B", members |-> {OtherId}]>>

\* only rpn_groups requested
InitSync ==
    /\ \E join \in JoinLists \ {<<>>} : params = [NoParams EXCEPT !.rpn_groups = join]
    /\ rpn \in RemoteGroupsInit
    /\ server = ServerJson("ON")

\* only a power state requested
InitPower ==
    /\ \E st \in {"on", "off", "reboot"}, bm \in BootModes \cup {<<>>} :
          params = [NoParams EXCEPT !.state = st, !.boot_mode = bm]
    /\ rpn = <<>>
    /\ \E pw \in {"ON", "OFF"} : server = ServerJson(pw)

\* any combination of sub-operations
InitCombined ==
    /\ \E hn \in {"", "web2"}, join \in {<<>>, <<"A">>, <<"C">>},
          ri \in BOOLEAN, b \in BOOLEAN, bc \in BOOLEAN,
          bm \in {Normal, <<"r","e","s","c","u","e","-","u","b">>},
          st \in {"none", "on", "off", "reboot"} :
          params = [id |-> SelfId, hostname |-> hn, rpn_groups |-> join,
                    rescue_images |-> ri, bmc |-> b, bmc_close |-> bc,
                    boot_mode |-> bm, state |-> st]
    /\ rpn = SmallGroups
    /\ \E pw \in {"ON", "OFF"} : server = ServerJson(pw)

\* no server id
InitNoId ==
    /\ \E st \in {"none", "on", "off", "reboot"} :
          params = [NoParams EXCEPT !.id = 0, !.state = st]
    /\ rpn = <<>>
    /\ server = ServerJson("ON")

InitModule ==
    /\ pc = "find"
    /\ calls = <<>>
    /\ output = <<>>
    /\ mutated = FALSE
    /\ rpn_run = NoRun
    /\ polls = 0
    /\ result = [failed |-> FALSE, changed |-> FALSE, msg |-> ""]
    /\ (InitSync \/ InitPower \/ InitCombined \/ InitNoId)

----------------------------------------------------------------------------
(* core() *)

Fail(msg) == [failed |-> TRUE, changed |-> FALSE, msg |-> msg]

\* a lookup whose failure does not stop core()
FindGoesOn ==
    /\ pc = "find"
    /\ pc' = "hostname"
    /\ IF params.id = 0
       THEN calls' = calls
       ELSE \E ok \in BOOLEAN :
            calls' = Append(calls, Call("GET server", 0, "", NoImage, ok))
    /\ UNCHANGED <<params, server, rpn, output, mutated, rpn_run, polls, result, ivars, bvars>>

\* Server.find(server_id) and the "Unable to find the server" exit
Find ==
    /\ pc = "find"
    /\ IF params.id = 0
       THEN /\ pc' = "failed"
            /\ result' = Fail("Unable to find the server")
            /\ calls' = calls
       ELSE \E ok \in BOOLEAN :
            /\ calls' = Append(calls, Call("GET server", 0, "", NoImage, ok))
            /\ IF ok
               THEN pc' = "hostname" /\ result' = result
               ELSE pc' = "failed" /\ result' = Fail("Unable to find the server")
    /\ UNCHANGED <<params, server, rpn, output, mutated, rpn_run, polls, ivars, bvars>>

\* if hostname: output.append({'hostname': server.name(hostname)})
Rename ==
    /\ pc = "hostname"
    /\ pc' = "rpn_groups"
    /\ IF params.hostname # ""
       THEN \E ok \in BOOLEAN :
            LET r == Name(server, params.hostname, ok)
            IN /\ server' = r.srv
               /\ calls' = calls \o r.calls
               /\ mutated' = (mutated \/ Mutates(r.calls))
               /\ output' = Append(output, [op |-> "hostname", ret |-> r.ret])
       ELSE UNCHANGED <<server, calls, mutated, output>>
    /\ UNCHANGED <<params, rpn, rpn_run, polls, result, ivars, bvars>>

\* if rpn_groups: output.append({'rpn_groups': server.rpn_groups(rpn_groups)})
SyncGroups ==
    /\ pc = "rpn_groups"
    /\ IF Len(params.rpn_groups) > 0
       THEN \E ok \in RpnOutcomes(rpn, server.id, params.rpn_groups) :
            LET r == RpnGroups(rpn, server.id, params.rpn_groups, ok)
            IN /\ rpn' = r.remote
               /\ calls' = calls \o r.calls
               /\ mutated' = (mutated \/ r.changes)
               /\ rpn_run' = [status |-> r.status, ret |-> r.sync, fetch |-> rpn,
                              calls |-> r.calls, join |-> params.rpn_groups,
                              between |-> r.between]
               /\ IF r.status = "returned"
                  THEN /\ server' = [server EXCEPT !.groups = r.recorded]
                       /\ output' = Append(output, [op |-> "rpn_groups", ret |-> r.sync])
                       /\ pc' = "rescue_images"
                       /\ result' = result
                  ELSE /\ pc' = "failed"
                       /\ result' = Fail(r.status)
                       /\ UNCHANGED <<server, output>>
       ELSE /\ pc' = "rescue_images"
            /\ UNCHANGED <<server, rpn, calls, mutated, rpn_run, output, result>>
    /\ UNCHANGED <<params, polls, ivars, bvars>>

\* if rescue_images: output.append({'rescue_images': server.rescue_images()})
RescueImages ==
    /\ pc = "rescue_images"
    /\ pc' = "bmc"
    /\ IF params.rescue_images
       THEN \E ok \in BOOLEAN :
            /\ calls' = Append(calls, Call("GET server/rescue_images", 0, "", NoImage, ok))
            /\ output' = Append(output, [op |-> "rescue_images", ret |-> ok])
       ELSE UNCHANGED <<calls, output>>
    /\ UNCHANGED <<params, server, rpn, mutated, rpn_run, polls, result, ivars, bvars>>

\* Server._bmc: the session-creation call
BmcOpen ==
    /\ pc = "bmc"
    /\ IF params.bmc
       THEN \E ok \in BOOLEAN :
            /\ calls' = Append(calls, Call("POST server/bmc/session", 0, "", NoImage, ok))
            /\ mutated' = (mutated \/ ok)
            /\ IF ok
               THEN pc' = "bmc_poll" /\ output' = output
               ELSE /\ pc' = "bmc_close"
                    /\ output' = Append(output, [op |-> "bmc", ret |-> FALSE])
       ELSE pc' = "bmc_close" /\ UNCHANGED <<calls, mutated, output>>
    /\ UNCHANGED <<params, server, rpn, rpn_run, polls, result, ivars, bvars>>

\* a status request that is not authenticated and ends the loop with False
BmcPendingGivesUp ==
    /\ pc = "bmc_poll"
    /\ polls < MaxPolls
    /\ polls' = polls + 1
    /\ pc' = "bmc_close"
    /\ calls' = Append(calls, Call("GET server/bmc/session", 0, "", NoImage, FALSE))
    /\ output' = Append(output, [op |-> "bmc", ret |-> FALSE])
    /\ UNCHANGED <<params, server, rpn, mutated, rpn_run, result, ivars, bvars>>

\* Server._bmc: a status request that is not yet authenticated, then sleep(1)
BmcPending ==
    /\ pc = "bmc_poll"
    /\ polls < MaxPolls
    /\ polls' = polls + 1
    /\ calls' = Append(calls, Call("GET server/bmc/session", 0, "", NoImage, FALSE))
    /\ UNCHANGED <<pc, params, server, rpn, output, mutated, rpn_run, result, ivars, bvars>>

\* Server._bmc: a status request that reports authenticated ends the loop
BmcAuthenticated ==
    /\ pc = "bmc_poll"
    /\ pc' = "bmc_close"
    /\ calls' = Append(calls, Call("GET server/bmc/session", 0, "", NoImage, TRUE))
    /\ server' = [server EXCEPT !.changed = TRUE]
    /\ output' = Append(output, [op |-> "bmc", ret |-> TRUE])
    /\ UNCHANGED <<params, rpn, mutated, rpn_run, polls, result, ivars, bvars>>

\* if bmc_close: output.append({'bmc_close': server.bmc_close(bmc_close)})
BmcClose ==
    /\ pc = "bmc_close"
    /\ pc' = "boot_mode"
    /\ IF params.bmc_close
       THEN \E ok \in BOOLEAN :
            /\ server' = [server EXCEPT !.bmc_key = "none"]
            /\ calls' = Append(calls, Call("DELETE server/bmc/session", 0, "", NoImage, ok))
            /\ mutated' = (mutated \/ ok)
            /\ output' = Append(output, [op |-> "bmc_close", ret |-> ok])
       ELSE UNCHANGED <<server, calls, mutated, output>>
    /\ UNCHANGED <<params, rpn, rpn_run, polls, result, ivars, bvars>>

\* a boot-mode step that leaves server.boot_mode for after the state change
BootModeSkipped ==
    /\ pc = "boot_mode"
    /\ pc' = "state"
    /\ UNCHANGED <<params, server, rpn, calls, output, mutated, rpn_run, polls, result,
                   ivars, bvars>>

\* if boot_mode: server.boot_mode = boot_mode
BootMode ==
    /\ pc = "boot_mode"
    /\ pc' = "state"
    /\ server' = IF params.boot_mode # <<>>
                 THEN [server EXCEPT !.boot_mode = params.boot_mode]
                 ELSE server
    /\ UNCHANGED <<params, rpn, calls, output, mutated, rpn_run, polls, result, ivars, bvars>>

\* if state: output.append({'state': server.state(state)})
StateChange ==
    /\ pc = "state"
    /\ pc' = "exit"
    /\ IF params.state # "none"
       THEN \E ok \in BOOLEAN :
            LET r == State(server, params.state, ok)
            IN /\ server' = r.srv
               /\ calls' = calls \o r.calls
               /\ mutated' = (mutated \/ Mutates(r.calls))
               /\ output' = Append(output, [op |-> "state", ret |-> r.ret])
       ELSE UNCHANGED <<server, calls, mutated, output>>
    /\ UNCHANGED <<params, rpn, rpn_run, polls, result, ivars, bvars>>

\* module.exit_json(changed=server.has_changed(), ...)
Exit ==
    /\ pc = "exit"
    /\ pc' = "done"
    /\ result' = [failed |-> FALSE, changed |-> server.changed, msg |-> ""]
    /\ UNCHANGED <<params, server, rpn, calls, output, mutated, rpn_run, polls, ivars, bvars>>

Next ==
    \/ Find
    \/ Rename
    \/ SyncGroups
    \/ RescueImages
    \/ BmcOpen
    \/ BmcPending
    \/ BmcAuthenticated
    \/ BmcClose
    \/ BootMode
    \/ StateChange
    \/ Exit

----------------------------------------------------------------------------
(* Inventory script: index and inventory builders *)

EmptyDict == <<>>

\* a push that replaces the list under an existing key
PushReplaces(my_dict, key, element) == (key :> <<element>>) @@ my_dict

\* push(my_dict, key, element)
Push(my_dict, key, element) ==
    IF key \in DOMAIN my_dict
    THEN [my_dict EXCEPT ![key] = Append(@, element)]
    ELSE (key :> <<element>>) @@ my_dict

\* A server record is a function from the fields its JSON carries (id,
\* hostname, ips for network.ip, os for os.name, dc for location.datacenter)
\* to their values; {} is EmptyDict. Only os and dc are ever null here.
JsonNull == "<null>"

\* the key build_index extracts from one record, stringified
IndexKey(rec, index_key) ==
    IF index_key = "network.ip" THEN rec.ips[1]
    ELSE IF index_key = "id" THEN ToString(rec.id)
    ELSE IF index_key = "os.name" THEN rec.os
    ELSE rec.dc

IndexFields == {"network.ip", "id", "os.name", "location.datacenter"}

\* the field of a record that idx[1][...] reads for an index_key
FieldName(index_key) ==
    IF index_key = "network.ip" THEN "ips"
    ELSE IF index_key = "id" THEN "id"
    ELSE IF index_key = "os.name" THEN "os"
    ELSE "dc"

\* idx[1][...] finds the field; it raises KeyError otherwise
HasField(rec, index_key) == FieldName(index_key) \in DOMAIN rec

\* key is None: an index_key outside the four, or a null value
KeyIsNone(rec, index_key) ==
    \/ index_key \notin IndexFields
    \/ /\ index_key \in {"os.name", "location.datacenter"}
       /\ rec[FieldName(index_key)] = JsonNull

\* build_index(data, index_key) over records that carry the field;
\* positions are 0-based as enumerate() gives them
RECURSIVE BuildIndexFrom(_, _, _, _)
BuildIndexFrom(index, data, index_key, i) ==
    IF i > Len(data) THEN index
    ELSE IF ~KeyIsNone(data[i], index_key)
         THEN BuildIndexFrom(Push(index, IndexKey(data[i], index_key), i - 1),
                             data, index_key, i + 1)
         ELSE BuildIndexFrom(index, data, index_key, i + 1)

BuildIndex(data, index_key) == BuildIndexFrom(EmptyDict, data, index_key, 1)

\* build_index raises KeyError at the first record without the field
BuildIndexRaises(data, index_key) ==
    /\ index_key \in IndexFields
    /\ \E i \in DOMAIN data : ~HasField(data[i], index_key)

\* a call of build_index: how it ends and the index it returns
BuildIndexCall(data, index_key) ==
    IF BuildIndexRaises(data, index_key)
    THEN [status |-> "KeyError", value |-> EmptyDict]
    ELSE [status |-> "ok", value |-> BuildIndex(data, index_key)]

\* an update that leaves os_to_servers as it was
UpdateIndexKeepsOs(index, data) ==
    ("host_to_server" :> BuildIndex(data, "network.ip")) @@
    ("id_to_server" :> BuildIndex(data, "id")) @@
    ("dc_to_servers" :> BuildIndex(data, "location.datacenter")) @@
    index

\* the four assignments to self.index in load_from_online_net
UpdateIndex(index, data) ==
    ("host_to_server" :> BuildIndex(data, "network.ip")) @@
    ("id_to_server" :> BuildIndex(data, "id")) @@
    ("os_to_servers" :> BuildIndex(data, "os.name")) @@
    ("dc_to_servers" :> BuildIndex(data, "location.datacenter")) @@
    index

\* one iteration of the loop of build_inventory
AddToInventory(inventory, srv) ==
    LET dest == srv.ips[1]
        byId == (("id_" \o ToString(srv.id)) :> <<dest>>) @@ inventory
        byName == Push(byId, srv.hostname, dest)
        byOs == Push(byName, "os_" \o srv.os, dest)
    IN Push(byOs, "dc_" \o srv.dc, dest)

RECURSIVE BuildInventoryFrom(_, _, _)
BuildInventoryFrom(inventory, data, i) ==
    IF i > Len(data) THEN inventory
    ELSE BuildInventoryFrom(AddToInventory(inventory, data[i]), data, i + 1)

\* build_inventory(): starts from an empty inventory
BuildInventory(data) == BuildInventoryFrom(EmptyDict, data, 1)

\* how one iteration of build_inventory ends: server[...] raises KeyError on
\* a missing field, 'os_' + None and 'dc_' + None raise TypeError
AddToInventoryStatus(srv) ==
    IF "ips" \notin DOMAIN srv \/ "id" \notin DOMAIN srv \/ "hostname" \notin DOMAIN srv
    THEN "KeyError"
    ELSE IF "os" \notin DOMAIN srv THEN "KeyError"
    ELSE IF srv.os = JsonNull THEN "TypeError"
    ELSE IF "dc" \notin DOMAIN srv THEN "KeyError"
    ELSE IF srv.dc = JsonNull THEN "TypeError"
    ELSE "ok"

\* a call of build_inventory: the first iteration that raises ends it
BuildInventoryCall(data) ==
    IF \A i \in DOMAIN data : AddToInventoryStatus(data[i]) = "ok"
    THEN [status |-> "ok", value |-> BuildInventory(data)]
    ELSE LET first == CHOOSE i \in DOMAIN data :
                        /\ AddToInventoryStatus(data[i]) # "ok"
                        /\ \A j \in 1..(i - 1) : AddToInventoryStatus(data[j]) = "ok"
         IN [status |-> AddToInventoryStatus(data[first]), value |-> EmptyDict]

\* the triple write_to_cache stores after a fetch that started from no index
Snapshot(data) ==
    [data |-> data, index |-> UpdateIndex(EmptyDict, data),
     inventory |-> BuildInventory(data)]

----------------------------------------------------------------------------
(* Inventory script: cache *)

IntAge(n) == [kind |-> "int", val |-> n]
StrAge(n) == [kind |-> "str", val |-> n]

\* is_cache_valid(): raised is set when mod_time + cache_max_age is float + str
IsCacheValid(file, max_age, current_time) ==
    IF file.exists
    THEN IF max_age.kind = "str"
         THEN [raised |-> TRUE, value |-> FALSE]
         ELSE [raised |-> FALSE, value |-> (file.mtime + max_age.val > current_time)]
    ELSE [raised |-> FALSE, value |-> FALSE]

\* write_to_cache()
WriteToCache(obj, current_time) ==
    [exists |-> TRUE, mtime |-> current_time,
     content |-> [data |-> obj.data, index |-> obj.index, inventory |-> obj.inventory]]

\* load_from_cache()
LoadFromCacheObj(obj, file) ==
    [obj EXCEPT !.data = file.content.data,
                !.inventory = file.content.inventory,
                !.index = file.content.index]

----------------------------------------------------------------------------
(* Inventory script: configuration *)

DefaultUri == "https://api.online.net/api/v1/"
NoValue == ""      \* None, an unset variable, an option that was not given
NotGiven == 0 - 1  \* cache_max_age absent from the ini file / command line

\* argparse: action='store_true' with the given default
StoreTrue(default, given) == IF given THEN TRUE ELSE default

NoArgs ==
    [list |-> FALSE, host |-> NoValue, all |-> FALSE, force_cache |-> FALSE,
     refresh_cache |-> FALSE, env |-> FALSE]

\* __init__, lines 141-149
NewInventory ==
    [api_uri |-> DefaultUri, api_token |-> NoValue, cache_max_age |-> IntAge(0),
     args |-> NoArgs, data |-> EmptyDict, inventory |-> EmptyDict, index |-> EmptyDict]

\* read_settings(): config.getint gives an integer max-age
ReadSettingsObj(obj, ini) ==
    [obj EXCEPT
        !.api_uri = IF ini.api_uri # NoValue THEN ini.api_uri ELSE @,
        !.api_token = IF ini.api_token # NoValue THEN ini.api_token ELSE @,
        !.cache_max_age = IF ini.cache_max_age # NotGiven
                          THEN IntAge(ini.cache_max_age) ELSE @]

\* an environment that only fills in what the ini file left at its default
ReadEnvironmentKeepsIni(obj, env) ==
    [obj EXCEPT
        !.api_uri = IF env.api_uri # NoValue /\ @ = DefaultUri THEN env.api_uri ELSE @,
        !.api_token = IF env.api_token # NoValue /\ @ = NoValue THEN env.api_token ELSE @]

\* read_environment()
ReadEnvironmentObj(obj, env) ==
    [obj EXCEPT
        !.api_uri = IF env.api_uri # NoValue THEN env.api_uri ELSE @,
        !.api_token = IF env.api_token # NoValue THEN env.api_token ELSE @]

\* read_cli_args(): --cache-max_age is stored as the string it was given as
ReadCliArgsObj(obj, cli) ==
    [obj EXCEPT
        !.api_uri = IF cli.api_uri # NoValue THEN cli.api_uri ELSE @,
        !.api_token = IF cli.api_token # NoValue THEN cli.api_token ELSE @,
        !.cache_max_age = IF cli.cache_max_age # NotGiven
                          THEN StrAge(cli.cache_max_age) ELSE @,
        !.args = [list |-> IF ~cli.all /\ cli.host = NoValue
                           THEN TRUE ELSE StoreTrue(FALSE, cli.list),
                  host |-> cli.host,
                  all |-> StoreTrue(FALSE, cli.all),
                  force_cache |-> StoreTrue(TRUE, cli.force_cache),
                  refresh_cache |-> StoreTrue(FALSE, cli.refresh_cache),
                  env |-> StoreTrue(FALSE, cli.env)]]

----------------------------------------------------------------------------
(* Inventory script: load_from_online_net, load_variables_for_host *)

ApiCall(cmd, ok) == [cmd |-> cmd, ok |-> ok]

\* the requests of load_from_online_net: the list, then one per listed server
FetchLog(servers, okList, okSrv) ==
    <<ApiCall("server", okList)>> \o
    (IF okList
     THEN [i \in DOMAIN servers |-> ApiCall("server/" \o ToString(servers[i].id), okSrv[i])]
     ELSE <<>>)

\* a load that keeps the cache file when the list request failed
LoadFromOnlineNetKeepsCache(obj, servers, okList, okSrv, current_time) ==
    LET data == IF okList
                THEN [i \in DOMAIN servers |-> IF okSrv[i] THEN servers[i] ELSE EmptyDict]
                ELSE <<>>
        loaded == [obj EXCEPT !.data = data,
                              !.index = UpdateIndex(obj.index, data),
                              !.inventory = BuildInventory(data)]
    IN IF \E k \in IndexFields : BuildIndexRaises(data, k)
       THEN [status |-> "KeyError", obj |-> [obj EXCEPT !.data = data], wrote |-> FALSE,
             log |-> FetchLog(servers, okList, okSrv)]
       ELSE [status |-> "ok", obj |-> loaded, wrote |-> okList,
             log |-> FetchLog(servers, okList, okSrv)]

\* load_from_online_net(): a failed list request yields no servers; a failed
\* server request yields {}, on which the first build_index raises KeyError
\* after self.data was assigned
LoadFromOnlineNetObj(obj, servers, okList, okSrv, current_time) ==
    LET data == IF okList
                THEN [i \in DOMAIN servers |-> IF okSrv[i] THEN servers[i] ELSE EmptyDict]
                ELSE <<>>
        loaded == [obj EXCEPT !.data = data,
                              !.index = UpdateIndex(obj.index, data),
                              !.inventory = BuildInventory(data)]
    IN IF \E k \in IndexFields : BuildIndexRaises(data, k)
       THEN [status |-> "KeyError", obj |-> [obj EXCEPT !.data = data], wrote |-> FALSE,
             log |-> FetchLog(servers, okList, okSrv)]
       ELSE IF BuildInventoryCall(data).status # "ok"
       THEN [status |-> BuildInventoryCall(data).status,
             obj |-> [obj EXCEPT !.data = data, !.index = UpdateIndex(obj.index, data)],
             wrote |-> FALSE, log |-> FetchLog(servers, okList, okSrv)]
       ELSE [status |-> "ok", obj |-> loaded, wrote |-> TRUE,
             log |-> FetchLog(servers, okList, okSrv)]

\* to_safe(word) on the words used as --host values
ToSafe(word) == IF word = "id 1" THEN "id_1" ELSE word

\* load_variables_for_host()
LoadVariablesForHost(obj) ==
    LET host == ToSafe(obj.args.host)
    IN IF host \in DOMAIN obj.index["host_to_server"]
       THEN [found |-> TRUE, server |-> obj.data[obj.index["host_to_server"][host][1] + 1]]
       ELSE IF host \in DOMAIN obj.index["id_to_server"]
       THEN [found |-> TRUE, server |-> obj.data[obj.index["id_to_server"][host][1] + 1]]
       ELSE [found |-> FALSE, server |-> EmptyDict]

----------------------------------------------------------------------------
(* Inventory script: OnlineNetInventory.__init__ *)

ReadSettings ==
    /\ ipc = "read_settings"
    /\ ipc' = "read_environment"
    /\ inv' = ReadSettingsObj(inv, conf.ini)
    /\ UNCHANGED <<conf, cache, now, api_servers, api_log, writes, cache_valid, printed,
                   cache_before, mvars, bvars>>

ReadEnvironment ==
    /\ ipc = "read_environment"
    /\ ipc' = "read_cli_args"
    /\ inv' = ReadEnvironmentObj(inv, conf.env)
    /\ UNCHANGED <<conf, cache, now, api_servers, api_log, writes, cache_valid, printed,
                   cache_before, mvars, bvars>>

ReadCliArgs ==
    /\ ipc = "read_cli_args"
    /\ ipc' = "verify"
    /\ inv' = ReadCliArgsObj(inv, conf.cli)
    /\ UNCHANGED <<conf, cache, now, api_servers, api_log, writes, cache_valid, printed,
                   cache_before, mvars, bvars>>

\* lines 156-166: the token check and the env command
Verify ==
    /\ ipc = "verify"
    /\ IF inv.api_token = NoValue
       THEN ipc' = "exit_no_token" /\ printed' = printed
       ELSE IF inv.args.env
       THEN /\ ipc' = "exit_env"
            /\ printed' = [kind |-> "env", api_uri |-> inv.api_uri,
                           api_token |-> inv.api_token]
       ELSE ipc' = "manage_cache" /\ printed' = printed
    /\ UNCHANGED <<conf, inv, cache, now, api_servers, api_log, writes, cache_valid,
                   cache_before, mvars, bvars>>

\* line 171: not force_cache and refresh_cache or not is_cache_valid()
ManageCache ==
    /\ ipc = "manage_cache"
    /\ IF ~inv.args.force_cache /\ inv.args.refresh_cache
       THEN ipc' = "fetch" /\ cache_valid' = cache_valid
       ELSE LET valid == IsCacheValid(cache, inv.cache_max_age, now)
            IN /\ cache_valid' = IF valid.raised THEN "TypeError"
                                 ELSE IF valid.value THEN "True" ELSE "False"
               /\ IF valid.raised THEN ipc' = "crashed"
                  ELSE IF ~valid.value THEN ipc' = "fetch"
                  ELSE ipc' = "load_cache"
    /\ UNCHANGED <<conf, inv, cache, now, api_servers, api_log, writes, printed,
                   cache_before, mvars, bvars>>

\* load_from_online_net(), from line 172, 179 or 185
LoadFromOnlineNet ==
    /\ ipc = "fetch"
    /\ \E okList \in BOOLEAN, okSrv \in [DOMAIN api_servers -> BOOLEAN] :
       LET r == LoadFromOnlineNetObj(inv, api_servers, okList, okSrv, now)
       IN /\ api_log' = api_log \o r.log
          /\ inv' = r.obj
          /\ IF r.wrote
             THEN cache' = WriteToCache(r.obj, now) /\ writes' = writes + 1
             ELSE UNCHANGED <<cache, writes>>
          /\ ipc' = IF r.status = "ok" THEN "output" ELSE "crashed"
    /\ UNCHANGED <<conf, now, api_servers, cache_valid, printed,
                   cache_before, mvars, bvars>>

\* lines 174-185: load_from_cache() and what follows it
LoadFromCache ==
    /\ ipc = "load_cache"
    /\ inv' = LoadFromCacheObj(inv, cache)
    /\ IF Len(inv'.data) = 0
       THEN IF inv.args.force_cache THEN ipc' = "exit_empty" ELSE ipc' = "fetch"
       ELSE IF ~inv.args.force_cache
               /\ (inv.args.list \/ inv.args.host # NoValue \/ inv.args.all)
            THEN ipc' = "fetch"
            ELSE ipc' = "output"
    /\ UNCHANGED <<conf, cache, now, api_servers, api_log, writes, cache_valid, printed,
                   cache_before, mvars, bvars>>

\* a dispatch that looks at --host before --all
JsonDataHostFirst(obj) ==
    IF obj.args.host # NoValue
    THEN [kind |-> "host", value |-> LoadVariablesForHost(obj)]
    ELSE IF obj.args.all
    THEN [kind |-> "all", value |-> obj.data]
    ELSE [kind |-> "list", value |-> obj.inventory]

\* lines 187-196: pick the json_data to print based on the CLI command
JsonData(obj) ==
    IF obj.args.all
    THEN [kind |-> "all", value |-> obj.data]
    ELSE IF obj.args.host # NoValue
    THEN [kind |-> "host", value |-> LoadVariablesForHost(obj)]
    ELSE [kind |-> "list", value |-> obj.inventory]

\* lines 187-201: pick the json_data and print it
Output ==
    /\ ipc = "output"
    /\ ipc' = "done"
    /\ printed' = JsonData(inv)
    /\ UNCHANGED <<conf, inv, cache, now, api_servers, api_log, writes, cache_valid,
                   cache_before, mvars, bvars>>

NextInv ==
    \/ ReadSettings
    \/ ReadEnvironment
    \/ ReadCliArgs
    \/ Verify
    \/ ManageCache
    \/ LoadFromOnlineNet
    \/ LoadFromCache
    \/ Output

----------------------------------------------------------------------------
(* build_index and build_inventory called directly on a record list *)

NoBuild == [op |-> "none", index_key |-> "", status |-> "none", value |-> EmptyDict]

\* "hostname" stands for an index_key outside the four build_index knows
IndexKeys == IndexFields \cup {"hostname"}

ApplyBuildIndex ==
    /\ bpc = "start"
    /\ bpc' = "done"
    /\ \E k \in IndexKeys :
         built' = [op |-> "build_index", index_key |-> k,
                   status |-> BuildIndexCall(records, k).status,
                   value |-> BuildIndexCall(records, k).value]
    /\ UNCHANGED <<records, mvars, ivars>>

ApplyBuildInventory ==
    /\ bpc = "start"
    /\ bpc' = "done"
    /\ built' = [op |-> "build_inventory", index_key |-> "",
                 status |-> BuildInventoryCall(records).status,
                 value |-> BuildInventoryCall(records).value]
    /\ UNCHANGED <<records, mvars, ivars>>

NextBuild ==
    \/ ApplyBuildIndex
    \/ ApplyBuildInventory

----------------------------------------------------------------------------
(* Inputs of the inventory script *)

S1 == [id |-> 1, hostname |-> "web1", ips |-> <<"10.0.0.1">>, os |-> "ubuntu", dc |-> "DC2"]
S2 == [id |-> 2, hostname |-> "id_1", ips |-> <<"10.0.0.2", "10.0.0.9">>,
       os |-> "ubuntu", dc |-> "DC3"]

\* a record whose os.name is null, one without the os field, and {}
S3 == [id |-> 3, hostname |-> "web3", ips |-> <<"10.0.0.3">>, os |-> JsonNull, dc |-> "DC2"]
S4 == [id |-> 4, hostname |-> "web4", ips |-> <<"10.0.0.4">>, dc |-> "DC3"]
RecordPool == {S1, S2, S3, S4, EmptyDict}

RECURSIVE ListsUpTo(_, _)
ListsUpTo(pool, n) ==
    IF n = 0 THEN {<<>>}
    ELSE ListsUpTo(pool, n - 1) \cup
         {Append(l, r) : l \in {x \in ListsUpTo(pool, n - 1) : Len(x) = n - 1}, r \in pool}

RecordLists == ListsUpTo(RecordPool, MaxRecords)

InitBuilders ==
    /\ bpc = "start"
    /\ records \in RecordLists
    /\ built = NoBuild

ApiLists == {<<S1>>, <<S1, S2>>}
CachedLists == {<<>>, <<S1>>, <<S2, S1>>}

NoFile == [exists |-> FALSE, mtime |-> 0, content |-> Snapshot(<<>>)]

CacheFiles ==
    {NoFile} \cup
    { [exists |-> TRUE, mtime |-> t, content |-> Snapshot(d)] :
        t \in 0..MaxTime, d \in CachedLists }

NoIni == [api_uri |-> NoValue, api_token |-> NoValue, cache_max_age |-> NotGiven]
NoEnv == [api_uri |-> NoValue, api_token |-> NoValue]
NoCli ==
    [list |-> FALSE, host |-> NoValue, all |-> FALSE, force_cache |-> FALSE,
     refresh_cache |-> FALSE, env |-> FALSE, api_uri |-> NoValue,
     api_token |-> NoValue, cache_max_age |-> NotGiven]

\* runs that differ in the command, the cache flags, the max-age and the cache file
InitCacheRuns ==
    /\ \E age \in {NotGiven, 0, 2}, cliAge \in {NotGiven, 2},
          l \in BOOLEAN, h \in {NoValue, "10.0.0.1"}, a \in BOOLEAN,
          fc \in BOOLEAN, rc \in BOOLEAN :
          conf = [ini |-> [NoIni EXCEPT !.api_token = "tok_ini", !.cache_max_age = age],
                  env |-> NoEnv,
                  cli |-> [NoCli EXCEPT !.list = l, !.host = h, !.all = a,
                                        !.force_cache = fc, !.refresh_cache = rc,
                                        !.cache_max_age = cliAge]]
    /\ cache \in CacheFiles
    /\ api_servers \in ApiLists

\* runs that differ in where the API URI and token come from
InitConfigRuns ==
    /\ \E iu \in {NoValue, "uri_ini"}, it \in {NoValue, "tok_ini"},
          eu \in {NoValue, "uri_env"}, et \in {NoValue, "tok_env"},
          cu \in {NoValue, "uri_cli"}, ct \in {NoValue, "tok_cli"},
          e \in BOOLEAN, h \in {NoValue, "2", "id 1"} :
          conf = [ini |-> [NoIni EXCEPT !.api_uri = iu, !.api_token = it],
                  env |-> [api_uri |-> eu, api_token |-> et],
                  cli |-> [NoCli EXCEPT !.api_uri = cu, !.api_token = ct, !.env = e,
                                        !.host = h]]
    /\ cache = NoFile
    /\ api_servers = <<S1, S2>>

InitInventory ==
    /\ ipc = "read_settings"
    /\ inv = NewInventory
    /\ now = MaxTime
    /\ api_log = <<>>
    /\ writes = 0
    /\ cache_valid = "none"
    /\ printed = [kind |-> "none"]
    /\ (InitCacheRuns \/ InitConfigRuns)
    /\ cache_before = cache

----------------------------------------------------------------------------
(* Specifications *)

IdleInventory ==
    /\ ipc = "idle"
    /\ conf = [ini |-> NoIni, env |-> NoEnv, cli |-> NoCli]
    /\ inv = NewInventory
    /\ cache = NoFile
    /\ now = 0
    /\ api_servers = <<>>
    /\ api_log = <<>>
    /\ writes = 0
    /\ cache_valid = "none"
    /\ printed = [kind |-> "none"]
    /\ cache_before = NoFile

IdleModule ==
    /\ pc = "idle"
    /\ params = NoParams
    /\ server = ServerJson("ON")
    /\ rpn = <<>>
    /\ calls = <<>>
    /\ output = <<>>
    /\ mutated = FALSE
    /\ rpn_run = NoRun
    /\ polls = 0
    /\ result = [failed |-> FALSE, changed |-> FALSE, msg |-> ""]

IdleBuilders ==
    /\ bpc = "idle"
    /\ records = <<>>
    /\ built = NoBuild

\* the management plugin
Init == InitModule /\ IdleInventory /\ IdleBuilders
Spec == Init /\ [][Next]_vars

\* the management plugin on runs that open a BMC session, with a remote that
\* reports authenticated at some time
InitBmc ==
    /\ InitModule /\ IdleInventory /\ IdleBuilders
    /\ InitCombined
    /\ params.bmc /\ params.rpn_groups = <<>> /\ ~params.rescue_images
SpecBmc == InitBmc /\ [][Next]_vars /\ WF_vars(BmcAuthenticated)

\* the inventory script
InitInv == IdleModule /\ InitInventory /\ IdleBuilders
SpecInv == InitInv /\ [][NextInv]_vars

\* the two builders on their own
InitBuild == IdleModule /\ IdleInventory /\ InitBuilders
SpecBuild == InitBuild /\ [][NextBuild]_vars

----------------------------------------------------------------------------
(* Properties of the management plugin (checked under Spec) *)

Range(seq) == {seq[i] : i \in DOMAIN seq}

\* names of the remote groups that contain the server
MemberNames(groups) ==
    {groups[i].name : i \in {k \in DOMAIN groups : SelfId \in groups[k].members}}

\* names of the remote groups
GroupNamesOf(groups) == {groups[i].name : i \in DOMAIN groups}

AllSucceeded(log) == \A i \in DOMAIN log : log[i].ok

CallsOf(log, cmd) == SelectSeq(log, LAMBDA c : c.cmd = cmd)

\* rpn_groups() has run to its end, by a return or by an exception
RpnOver == rpn_run.status # "none"

RpnReturned == rpn_run.status = "returned"

\* C1: once rpn_groups(desired) is over and every remote call succeeded, the
\* remote groups that contain the server are exactly the desired ones, also
\* when desired names did not exist remotely.
C1_EndsInDesiredGroups ==
    (RpnOver /\ AllSucceeded(rpn_run.calls))
        => MemberNames(rpn) = Range(rpn_run.join)

\* C2: a desired group that does not exist remotely is created with the server
\* as a member and, when every remote call succeeds, rpn_groups() returns
\* normally, returns true and records that group in the server's group list.
C2_MissingGroupIsJoined ==
    (RpnOver /\ AllSucceeded(rpn_run.calls))
        => \A n \in Range(rpn_run.join) \ GroupNamesOf(rpn_run.fetch) :
              /\ n \in MemberNames(rpn)
              /\ RpnReturned
              /\ rpn_run.ret
              /\ \E i \in DOMAIN server.groups : server.groups[i].name = n

\* C5: the changed flag core() reports at exit is true iff some sub-operation
\* mutated remote state.
C5_ChangedIffMutated ==
    pc = "done" => (result.changed <=> mutated)

\* C6: state('reboot') issues a rescue boot exactly when boot_mode starts with
\* 'rescue-', with boot_mode minus that prefix as image; any other boot_mode
\* gets a normal reboot call and no rescue boot call.
C6_RescueIffPrefixed ==
    (pc \in {"exit", "done"} /\ params.state = "reboot") =>
        LET bm == server.boot_mode
            rescues == CallsOf(calls, "server/boot/rescue")
            reboots == CallsOf(calls, "server/reboot")
        IN IF StartsWith(bm, RescuePrefix)
           THEN /\ Len(rescues) = 1
                /\ rescues[1].image = SubSeq(bm, Len(RescuePrefix) + 1, Len(bm))
                /\ Len(reboots) = 0
           ELSE Len(rescues) = 0 /\ Len(reboots) = 1

AlreadyInState ==
    \/ params.state = "on" /\ server.power = "ON"
    \/ params.state = "off" /\ server.power = "OFF"

\* C7: state('on') on a server recorded ON and state('off') on a server
\* recorded OFF return false, issue no remote call and leave the recorded power
\* and the changed flag as they were.
C7_NoOpWhenAlreadyInState ==
    [][(pc = "state" /\ AlreadyInState) =>
         /\ output' = Append(output, [op |-> "state", ret |-> FALSE])
         /\ calls' = calls
         /\ server'.power = server.power
         /\ server'.changed = server.changed]_vars

\* the no-op has happened: the state step is over, nothing was called for it
C7_Witness ==
    /\ pc = "exit"
    /\ AlreadyInState
    /\ output = <<[op |-> "state", ret |-> FALSE]>>
    /\ Len(calls) = 1
    /\ ~server.changed

\* C8: rpn_groups() returns true only if every removeServers and every
\* addServers call it issued succeeded, and false if any of them failed.
C8_TrueOnlyIfAllSucceeded ==
    RpnReturned =>
        (rpn_run.ret <=>
            \A i \in DOMAIN rpn_run.calls :
                rpn_run.calls[i].cmd \in {"rpn/group/removeServers", "rpn/group/addServers"}
                    => rpn_run.calls[i].ok)

\* a run that returned false because a removal failed while every add succeeded
C8_Witness ==
    /\ RpnReturned
    /\ ~rpn_run.ret
    /\ ~AllSucceeded(CallsOf(rpn_run.calls, "rpn/group/removeServers"))
    /\ AllSucceeded(CallsOf(rpn_run.calls, "rpn/group/addServers"))
    /\ Len(CallsOf(rpn_run.calls, "rpn/group/addServers")) > 0

\* C9: when rpn_groups() returns, the recorded group list holds exactly the
\* desired names whose addServers call succeeded, in the order of the desired
\* list; a group whose add call failed is not in it.
C9_RecordsSuccessfulAdds ==
    RpnReturned =>
        LET adds == CallsOf(rpn_run.calls, "rpn/group/addServers")
            joined == SelectSeq(adds, LAMBDA c : c.ok)
        IN /\ [i \in DOMAIN adds |-> adds[i].name] = rpn_run.join
           /\ server.groups =
                 [i \in DOMAIN joined |-> [id |-> joined[i].gid, name |-> joined[i].name]]

\* a run in which one add call failed and another succeeded
C9_Witness ==
    /\ RpnReturned
    /\ \E i, j \in DOMAIN rpn_run.calls :
          /\ rpn_run.calls[i].cmd = "rpn/group/addServers" /\ ~rpn_run.calls[i].ok
          /\ rpn_run.calls[j].cmd = "rpn/group/addServers" /\ rpn_run.calls[j].ok
    /\ Len(server.groups) = 1

----------------------------------------------------------------------------
(* Properties of the inventory script (checked under SpecInv) *)

\* the run printed its result
InvFinished == ipc = "done"

\* C3: a list, host or all run without --force-cache on the command line
\* performs a live fetch and overwrites the cache file, whatever the cache.
C3_LiveFetchUnlessForced ==
    (InvFinished /\ ~conf.cli.force_cache) => (Len(api_log) > 0 /\ writes > 0)

\* C4: with --force-cache no API request is ever issued, whatever the state
\* of the cache.
C4_ForceCacheIssuesNoRequest ==
    conf.cli.force_cache => Len(api_log) = 0

\* C10: is_cache_valid() returns true iff the cache file exists and
\* mtime + max-age > now, and false otherwise.
C10_ValidIffYoungerThanMaxAge ==
    (cache_valid # "none" /\ ipc \in {"fetch", "load_cache", "crashed"} /\ writes = 0) =>
        cache_valid = IF cache.exists /\ cache.mtime + inv.cache_max_age.val > now
                      THEN "True" ELSE "False"

----------------------------------------------------------------------------
(* Claims about build_inventory and build_index (SpecBuild) *)

BuiltInventory == built.op = "build_inventory" /\ built.status = "ok"

\* a build_index call with one of the four supported keys
IndexCalled == built.op = "build_index" /\ built.index_key \in IndexFields

\* C11: in the inventory build_inventory gives, every group id_<id> holds
\* exactly one address, the first IP of the server with that id, whatever
\* the hostnames and the order of the records
C11_IdGroupIsFirstIpOnly ==
    BuiltInventory =>
        \A i \in DOMAIN records :
            built.value["id_" \o ToString(records[i].id)] = <<records[i].ips[1]>>

\* the record does not carry the field, or carries it as null
LacksField(rec, index_key) ==
    \/ ~HasField(rec, index_key)
    \/ /\ index_key \in {"os.name", "location.datacenter"}
       /\ rec[FieldName(index_key)] = JsonNull

\* the key of a record as text: str(key)
StringifiedKey(rec, index_key) ==
    CASE index_key = "network.ip" -> rec.ips[1]
      [] index_key = "id" -> ToString(rec.id)
      [] index_key = "os.name" -> rec.os
      [] index_key = "location.datacenter" -> rec.dc

InSomeBucket(index, position) ==
    \E b \in DOMAIN index : \E j \in DOMAIN index[b] : index[b][j] = position

\* C12: build_index skips a record that lacks the indexed field: the build
\* ends without error, the position of that record is in no bucket, and
\* every other record is in the bucket of its key
C12_RecordWithoutFieldIsSkipped ==
    IndexCalled =>
        /\ built.status = "ok"
        /\ \A i \in DOMAIN records :
              IF LacksField(records[i], built.index_key)
              THEN ~InSomeBucket(built.value, i - 1)
              ELSE /\ StringifiedKey(records[i], built.index_key) \in DOMAIN built.value
                   /\ \E j \in DOMAIN built.value[StringifiedKey(records[i], built.index_key)] :
                         built.value[StringifiedKey(records[i], built.index_key)][j] = i - 1

\* the positions (0-based) of the records whose stringified key is b
PositionsWithKey(data, index_key, b) ==
    { i - 1 : i \in { n \in DOMAIN data :
                        /\ ~LacksField(data[n], index_key)
                        /\ StringifiedKey(data[n], index_key) = b } }

StrictlyAscending(seq) ==
    \A i \in DOMAIN seq : \A j \in DOMAIN seq : i < j => seq[i] < seq[j]

DistinctIds(data) ==
    \A i \in DOMAIN data : \A j \in DOMAIN data : i # j => data[i].id # data[j].id

\* C20: in the index a completed build_index call returns, every bucket
\* holds exactly the positions of the records whose stringified key is the
\* bucket key, in order of appearance, and every keyed record has a bucket;
\* over N records with pairwise distinct ids the id index has N buckets of
\* one position each
C20_BucketsHoldPositionsInOrder ==
    (IndexCalled /\ built.status = "ok") =>
        /\ \A b \in DOMAIN built.value :
              /\ Range(built.value[b]) = PositionsWithKey(records, built.index_key, b)
              /\ StrictlyAscending(built.value[b])
              /\ built.value[b] # <<>>
        /\ \A i \in DOMAIN records :
              ~LacksField(records[i], built.index_key) =>
                  StringifiedKey(records[i], built.index_key) \in DOMAIN built.value
        /\ (built.index_key = "id" /\ DistinctIds(records)) =>
              /\ Cardinality(DOMAIN built.value) = Len(records)
              /\ \A b \in DOMAIN built.value : Len(built.value[b]) = 1

\* three records, two of which share an os.name, indexed by os.name
C20_Witness ==
    /\ IndexCalled
    /\ built.status = "ok"
    /\ built.index_key = "os.name"
    /\ Len(records) = 3
    /\ \E b \in DOMAIN built.value : Len(built.value[b]) = 2

----------------------------------------------------------------------------
(* Claims about the start-up of the inventory script (SpecInv) *)

\* the cache file was valid, was read, and held no record
ReadEmptyCache ==
    /\ cache_valid = "True"
    /\ ipc \notin {"manage_cache", "load_cache"}
    /\ writes = 0
    /\ Len(cache.content.data) = 0

\* C13: when the cache read yields zero records, a run in cache-only mode
\* (--force-cache given) ends with the fatal error and without live fetch,
\* and a run that is not in cache-only mode goes on to a live fetch
C13_EmptyCacheFatalOnlyIfForced ==
    ReadEmptyCache =>
        IF conf.cli.force_cache
        THEN ipc = "exit_empty" /\ api_log = <<>>
        ELSE ipc # "exit_empty" /\ (ipc = "fetch" \/ api_log # <<>>)

\* C14: a run that was asked to refresh (--refresh-cache, no --force-cache)
\* and reached its output has made a live fetch and rewritten the cache
\* file, also when the file existed and was younger than max-age
C14_RefreshFetchesAndRewrites ==
    (InvFinished /\ conf.cli.refresh_cache /\ ~conf.cli.force_cache) =>
        (api_log # <<>> /\ writes > 0)

IndexNames == {"host_to_server", "id_to_server", "os_to_servers", "dc_to_servers"}

\* the index and the inventory are the ones built from data alone
DerivedFrom(data, index, inventory) ==
    /\ DOMAIN index = IndexNames
    /\ index["host_to_server"] = BuildIndex(data, "network.ip")
    /\ index["id_to_server"] = BuildIndex(data, "id")
    /\ index["os_to_servers"] = BuildIndex(data, "os.name")
    /\ index["dc_to_servers"] = BuildIndex(data, "location.datacenter")
    /\ inventory = BuildInventory(data)

\* the object after load_from_cache() followed by load_from_online_net()
FetchedAfterCacheLoad(okList, okSrv) ==
    LoadFromOnlineNetObj(LoadFromCacheObj(inv, cache), api_servers, okList, okSrv, now)

\* C15: whenever the script is about to print or has printed, its index and
\* inventory are built from its current records alone, and a cache file
\* written by the run holds exactly these records, index and inventory; a
\* live fetch made on top of a cache load leaves nothing of the cached
\* snapshot next to the fetched records
C15_OneSnapshot ==
    /\ (ipc \in {"output", "done"}) =>
          /\ DerivedFrom(inv.data, inv.index, inv.inventory)
          /\ (writes > 0) =>
                cache.content = [data |-> inv.data, index |-> inv.index,
                                 inventory |-> inv.inventory]
    /\ (ipc = "load_cache") =>
          \A okList \in BOOLEAN, okSrv \in [DOMAIN api_servers -> BOOLEAN] :
              FetchedAfterCacheLoad(okList, okSrv).status = "ok" =>
                  DerivedFrom(FetchedAfterCacheLoad(okList, okSrv).obj.data,
                              FetchedAfterCacheLoad(okList, okSrv).obj.index,
                              FetchedAfterCacheLoad(okList, okSrv).obj.inventory)

\* a run found an expired cache file, fetched two servers and printed
C15_Witness ==
    /\ ipc = "done"
    /\ cache_valid = "False"
    /\ writes = 1
    /\ Len(inv.data) = 2
    /\ cache.content.data = inv.data

\* C17: a run that reaches output prints exactly one of the raw records
\* (all), the host variables (host) and the inventory (list): all whenever
\* --all is given, host when --host is given without --all, list otherwise
C17_OneOutputByPrecedence ==
    InvFinished =>
        /\ printed.kind \in {"all", "host", "list"}
        /\ (printed.kind = "all") <=> conf.cli.all
        /\ (printed.kind = "host") <=> (~conf.cli.all /\ conf.cli.host # NoValue)
        /\ (printed.kind = "list") <=> (~conf.cli.all /\ conf.cli.host = NoValue)
        /\ (printed.kind = "all") => printed.value = inv.data
        /\ (printed.kind = "host") => printed.value = LoadVariablesForHost(inv)
        /\ (printed.kind = "list") => printed.value = inv.inventory

\* --all, --host and --list given together: the raw records are printed
C17_Witness ==
    /\ InvFinished
    /\ conf.cli.all /\ conf.cli.host # NoValue /\ conf.cli.list
    /\ printed.kind = "all"
    /\ printed.value # <<>>

----------------------------------------------------------------------------
(* Claims about core() and Server._bmc (Spec, SpecBmc) *)

OpOrder == <<"hostname", "rpn_groups", "rescue_images", "bmc", "bmc_close", "state">>

Requested(op) ==
    CASE op = "hostname" -> params.hostname # ""
      [] op = "rpn_groups" -> Len(params.rpn_groups) > 0
      [] op = "rescue_images" -> params.rescue_images
      [] op = "bmc" -> params.bmc
      [] op = "bmc_close" -> params.bmc_close
      [] op = "state" -> params.state # "none"

RequestedOps == SelectSeq(OpOrder, Requested)

OutputOps == [i \in DOMAIN output |-> output[i].op]

\* the sub-operation a remote command belongs to, as its place in OpOrder
\* (0 for the lookup of the server)
StageOf(cmd) ==
    CASE cmd = "GET server" -> 0
      [] cmd = "PUT server" -> 1
      [] cmd \in {"GET rpn/group", "POST rpn/group", "rpn/group/addServers",
                  "rpn/group/removeServers"} -> 2
      [] cmd = "GET server/rescue_images" -> 3
      [] cmd \in {"POST server/bmc/session", "GET server/bmc/session"} -> 4
      [] cmd = "DELETE server/bmc/session" -> 5
      [] OTHER -> 6

\* C16: the sub-operations run in the order rename, group-sync, rescue-image
\* listing, BMC open, BMC close, boot-mode assignment, state change, and only
\* the requested ones run: the results and the remote calls appear in that
\* order, a finished run has one result per requested sub-operation, and
\* when the state change starts the requested boot mode is already assigned
C16_FixedOrderOfRequested ==
    /\ Len(OutputOps) <= Len(RequestedOps)
    /\ OutputOps = SubSeq(RequestedOps, 1, Len(OutputOps))
    /\ (pc \in {"exit", "done"}) => OutputOps = RequestedOps
    /\ \A i \in DOMAIN calls : \A j \in DOMAIN calls :
          i < j => StageOf(calls[i].cmd) <= StageOf(calls[j].cmd)
    /\ \A i \in DOMAIN calls :
          StageOf(calls[i].cmd) > 0 => Requested(OpOrder[StageOf(calls[i].cmd)])
    /\ (pc = "state" /\ params.boot_mode # <<>>) => server.boot_mode = params.boot_mode

\* a finished run of rename, BMC close and a reboot into a rescue image
C16_Witness ==
    /\ pc = "done"
    /\ OutputOps = <<"hostname", "bmc_close", "state">>
    /\ params.state = "reboot"
    /\ Contains(params.boot_mode, RescueWord)
    /\ \E i \in DOMAIN calls : calls[i].cmd = "server/boot/rescue"

\* Server.find returned False: no id, or the GET of the server failed
LookupFailed ==
    /\ pc # "find"
    /\ \/ params.id = 0
       \/ calls # <<>> /\ calls[1].cmd = "GET server" /\ ~calls[1].ok

\* C18: when the lookup of the server yields nothing, core() ends in the
\* fatal failure "Unable to find the server", no sub-operation has run and
\* no remote call other than the lookup itself was issued
C18_NotFoundIsFatalAndSilent ==
    LookupFailed =>
        /\ pc = "failed"
        /\ result = Fail("Unable to find the server")
        /\ output = <<>>
        /\ ~mutated
        /\ Len(calls) <= 1
        /\ \A i \in DOMAIN calls : calls[i].cmd = "GET server"

\* the lookup request failed on a run that asked for a rename and a state
C18_Witness ==
    /\ pc = "failed"
    /\ Len(calls) = 1
    /\ ~calls[1].ok
    /\ params.hostname # ""
    /\ params.state # "none"

StatusCall(ok) == Call("GET server/bmc/session", 0, "", NoImage, ok)

\* one step of _bmc: a failed session creation returns False without a
\* status request, a successful one starts polling; in the loop every step
\* is a status request, and the loop is left only by an authenticated one,
\* with the result True
BmcStep ==
    /\ (pc = "bmc" /\ params.bmc) =>
          /\ Len(calls') = Len(calls) + 1
          /\ calls'[Len(calls')].cmd = "POST server/bmc/session"
          /\ IF calls'[Len(calls')].ok
             THEN pc' = "bmc_poll" /\ output' = output
             ELSE pc' = "bmc_close" /\ output' = Append(output, [op |-> "bmc", ret |-> FALSE])
    /\ (pc = "bmc_poll" /\ pc' = "bmc_poll") => calls' = Append(calls, StatusCall(FALSE))
    /\ (pc = "bmc_poll" /\ pc' # "bmc_poll") =>
          /\ pc' = "bmc_close"
          /\ calls' = Append(calls, StatusCall(TRUE))
          /\ output' = Append(output, [op |-> "bmc", ret |-> TRUE])

\* C19: after a successful session creation _bmc keeps issuing status
\* requests and returns only on one that reports authenticated, so with a
\* remote that reports authenticated at some time every poll loop ends, and
\* there is no other way out of the loop (no bound, no failure result); a
\* failed session creation returns False without a status request
C19_PollsUntilAuthenticated ==
    /\ [][BmcStep]_vars
    /\ [](pc = "bmc_poll" => result = [failed |-> FALSE, changed |-> FALSE, msg |-> ""])
    /\ ((pc = "bmc_poll") ~> (pc = "bmc_close"))

\* the session was authenticated after MaxPolls unauthenticated replies
C19_Witness ==
    /\ pc = "bmc_close"
    /\ polls = MaxPolls
    /\ output # <<>>
    /\ output[Len(output)] = [op |-> "bmc", ret |-> TRUE]
    /\ calls[Len(calls)] = StatusCall(TRUE)

----------------------------------------------------------------------------
(* Claims about the configuration of the inventory script (SpecInv) *)

\* the first of the values that was given, in the order command line,
\* environment, ini file, default
ByPrecedence(fromCli, fromEnv, fromIni, default) ==
    IF fromCli # NoValue THEN fromCli
    ELSE IF fromEnv # NoValue THEN fromEnv
    ELSE IF fromIni # NoValue THEN fromIni
    ELSE default

ConfigRead == ipc \notin {"idle", "read_settings", "read_environment", "read_cli_args"}

\* C21: once the three sources are read, the API URI and the API token are
\* the command-line value when given, else the environment variable when
\* set, else the ini-file value, else the default; before the command line
\* is read the environment already wins over the ini file
C21_CliOverEnvOverIni ==
    /\ ConfigRead =>
          /\ inv.api_uri = ByPrecedence(conf.cli.api_uri, conf.env.api_uri,
                                        conf.ini.api_uri, DefaultUri)
          /\ inv.api_token = ByPrecedence(conf.cli.api_token, conf.env.api_token,
                                          conf.ini.api_token, NoValue)
    /\ (ipc = "read_cli_args") =>
          /\ inv.api_uri = ByPrecedence(NoValue, conf.env.api_uri,
                                        conf.ini.api_uri, DefaultUri)
          /\ inv.api_token = ByPrecedence(NoValue, conf.env.api_token,
                                          conf.ini.api_token, NoValue)

\* the env command printed the environment's URI over the ini file's and
\* the command line's token over both other tokens
C21_Witness ==
    /\ ipc = "exit_env"
    /\ conf.ini.api_uri # NoValue /\ conf.env.api_uri # NoValue /\ conf.cli.api_uri = NoValue
    /\ conf.ini.api_token # NoValue /\ conf.env.api_token # NoValue
    /\ conf.cli.api_token # NoValue
    /\ printed.api_uri = conf.env.api_uri
    /\ printed.api_token = conf.cli.api_token

----------------------------------------------------------------------------
(* Claims about the calls of Server.rpn_groups (Spec) *)

\* the place of a command in rpn_groups: fetch, create, remove, add
RpnStage(cmd) ==
    CASE cmd = "GET rpn/group" -> 0
      [] cmd = "POST rpn/group" -> 1
      [] cmd = "rpn/group/removeServers" -> 2
      [] cmd = "rpn/group/addServers" -> 3

\* rpn_groups() is over and its fetch of the groups succeeded
RpnFetched == RpnOver /\ rpn_run.calls[1].ok

CreateRemoveAddOrder ==
    \A i \in DOMAIN rpn_run.calls : \A j \in DOMAIN rpn_run.calls :
        i < j => RpnStage(rpn_run.calls[i].cmd) <= RpnStage(rpn_run.calls[j].cmd)

\* one removeServers call per fetched group with the server in it, in
\* fetch order, desired or not
RemovedFromEveryGroup ==
    LET removes == CallsOf(rpn_run.calls, "rpn/group/removeServers")
    IN [i \in DOMAIN removes |-> removes[i].gid] = ServerGroups(rpn_run.fetch, SelfId)

\* the fetched groups that have the server as a member between the loops
StillMemberOf ==
    { rpn_run.fetch[i].id : i \in { n \in DOMAIN rpn_run.fetch :
          \E k \in DOMAIN rpn_run.between :
              /\ rpn_run.between[k].id = rpn_run.fetch[n].id
              /\ SelfId \in rpn_run.between[k].members } }

FailedRemovals ==
    { c.gid : c \in { d \in Range(rpn_run.calls) :
                        d.cmd = "rpn/group/removeServers" /\ ~d.ok } }

\* C22 as stated: creations precede removals, which precede additions; a
\* removal is issued for every group that held the server at fetch time;
\* between the last removal and the first addition the server is a member
\* of no pre-existing group
C22_LeavesAllBeforeJoining ==
    RpnFetched =>
        /\ CreateRemoveAddOrder
        /\ RemovedFromEveryGroup
        /\ StillMemberOf = {}

\* C22, amended: creations precede removals, which precede additions; a
\* removal is issued for every group that held the server at fetch time,
\* desired or not; between the last removal and the first addition the
\* server is a member of exactly those pre-existing groups whose removal
\* call failed, so of none when every removal succeeded
C22_LeavesAllWhoseRemovalSucceeded ==
    RpnFetched =>
        /\ CreateRemoveAddOrder
        /\ RemovedFromEveryGroup
        /\ StillMemberOf = FailedRemovals

\* the server was in two groups, one of them desired; a group was created;
\* one removal failed and one succeeded; an addition followed
C22_Witness ==
    /\ RpnFetched
    /\ Len(ServerGroups(rpn_run.fetch, SelfId)) = 2
    /\ \E g \in Range(rpn_run.fetch) :
          SelfId \in g.members /\ g.name \in Range(rpn_run.join)
    /\ Len(CallsOf(rpn_run.calls, "POST rpn/group")) > 0
    /\ Cardinality(FailedRemovals) = 1
    /\ Len(CallsOf(rpn_run.calls, "rpn/group/addServers")) > 0

----------------------------------------------------------------------------
(* Claims about Server.state('on') and Server.state('off') (Spec) *)

\* state('on') on a server recorded OFF, or state('off') on one recorded ON
TransitionAttempt ==
    /\ pc = "state"
    /\ \/ params.state = "on" /\ server.power = "OFF"
       \/ params.state = "off" /\ server.power = "ON"

\* C23: a state('on') / state('off') that has to change the power issues
\* exactly one remote call, the boot or the shutdown; when that call fails
\* it returns false and the recorded power and the changed flag stay as
\* they were; the recorded power flips, with result true and changed set,
\* only when the call succeeded
C23_PowerFollowsTheCall ==
    [][TransitionAttempt =>
         /\ Len(calls') = Len(calls) + 1
         /\ SubSeq(calls', 1, Len(calls)) = calls
         /\ calls'[Len(calls')].cmd =
               (IF params.state = "on" THEN "server/boot/normal" ELSE "server/shutdown")
         /\ IF calls'[Len(calls')].ok
            THEN /\ server'.power = (IF params.state = "on" THEN "ON" ELSE "OFF")
                 /\ server'.changed
                 /\ output' = Append(output, [op |-> "state", ret |-> TRUE])
            ELSE /\ server'.power = server.power
                 /\ server'.changed = server.changed
                 /\ output' = Append(output, [op |-> "state", ret |-> FALSE])]_vars

\* after a rename that succeeded, the shutdown call failed: the server is
\* still recorded ON, the changed flag is still set, the result is false
C23_Witness ==
    /\ pc = "exit"
    /\ params.state = "off"
    /\ calls # <<>>
    /\ calls[Len(calls)].cmd = "server/shutdown"
    /\ ~calls[Len(calls)].ok
    /\ server.power = "ON"
    /\ server.changed
    /\ output[Len(output)] = [op |-> "state", ret |-> FALSE]

\* C24: whenever rpn_groups() returns, whatever remote calls failed, every
\* remote group that contains the server is a desired group or a group
\* whose removeServers call failed; the server is in no undesired group
\* whose removal succeeded
C24_OnlyDesiredOrFailedRemovals ==
    RpnReturned =>
        \A g \in Range(rpn) :
            SelfId \in g.members =>
                \/ g.name \in Range(rpn_run.join)
                \/ g.id \in FailedRemovals

\* the server was in two groups; it was taken out of one and put back as
\* desired, and it is still in the undesired other, whose removal failed
C24_Witness ==
    /\ RpnReturned
    /\ \E g \in Range(rpn) :
          /\ SelfId \in g.members
          /\ g.name \notin Range(rpn_run.join)
          /\ g.id \in FailedRemovals
    /\ \E c \in Range(rpn_run.calls) : c.cmd = "rpn/group/removeServers" /\ c.ok
    /\ \E c \in Range(rpn_run.calls) : c.cmd = "rpn/group/addServers" /\ c.ok

----------------------------------------------------------------------------
(* Claims about the cache file after a live fetch (SpecInv) *)

\* the step is a load_from_online_net() that ran to its end
FetchReturned == ipc = "fetch" /\ ipc' = "output"

\* the server-list request of the step failed: it is the only request
ListRequestFailed ==
    /\ Len(api_log') = Len(api_log) + 1
    /\ ~api_log'[Len(api_log')].ok

\* a run past load_from_cache() that read a fresh cache file of zero records
\* in cache-only mode
ReadPoisonedCache ==
    /\ cache_valid = "True"
    /\ ipc \notin {"manage_cache", "load_cache"}
    /\ Len(cache_before.content.data) = 0
    /\ inv.args.force_cache

\* C25: a load_from_online_net() that runs to its end writes the cache file
\* with the snapshot it just built, stamped now; when the server-list
\* request failed, the file, whatever it held, then holds the snapshot of
\* zero records, and it is one of the cache files a later run can start
\* from; a run that finds such a file fresh in cache-only mode ends with
\* the 'cache is empty' error and without a request
C25_FailedListEmptiesTheCache ==
    /\ [][FetchReturned =>
            /\ writes' = writes + 1
            /\ cache' = [exists |-> TRUE, mtime |-> now,
                         content |-> [data |-> inv'.data, index |-> inv'.index,
                                      inventory |-> inv'.inventory]]
            /\ ListRequestFailed =>
                  /\ cache'.content = Snapshot(<<>>)
                  /\ cache' \in CacheFiles]_vars
    /\ [][(ipc = "fetch" /\ ListRequestFailed) => ipc' = "output"]_vars
    /\ [](ReadPoisonedCache => (ipc = "exit_empty" /\ api_log = <<>>))

\* the run found an expired cache file with records in it, its list request
\* failed, and the file now holds zero records and is fresh
C25_Witness ==
    /\ ipc = "done"
    /\ cache_before.exists
    /\ Len(cache_before.content.data) > 0
    /\ api_log = <<ApiCall("server", FALSE)>>
    /\ writes = 1
    /\ cache.content.data = <<>>
    /\ cache.mtime = now

====
